---- MODULE Spec2Model ----
(***************************************************************************)
(* Model of the FMCG sample-data scripts.                                  *)
(*                                                                         *)
(*   data/cleaned/clean_fmcg_data.py  the cleaner: six read / clean / save *)
(*                                    blocks run top to bottom             *)
(*   data/generate.py                 the generator: sections 1 to 3, the  *)
(*                                    daily-sales, stock-level and GRV     *)
(*                                    record loops                         *)
(*                                                                         *)
(* A table is a sequence of rows, a row a record of cells, a cell a pair   *)
(* <<kind, payload>>.  Prices are held in quarter-cents, so that the mean  *)
(* of the two middle values of a column is a whole number.  Every numeric  *)
(* value of the model is whole, so astype(int) has nothing to truncate.    *)
(***************************************************************************)
EXTENDS Integers, Sequences, FiniteSets

VARIABLES
    pc,        \* cleaner: the block the script is at, "done" or "aborted"
    present,   \* cleaner: the raw files that exist under RAW_PATH
    raw,       \* cleaner: the content of each raw file
    written,   \* cleaner: the cleaned files save_clean has written
    cleaned,   \* cleaner: the content of each cleaned file
    err,       \* cleaner: the exception that ended the run, or "none"
    gpc,       \* generator: the section the script is at
    sales_df,  \* generator: the daily-sales rows appended so far
    stocks,    \* generator: the stock-level rows appended so far
    grv        \* generator: the GRV rows appended so far

cvars == <<pc, present, raw, written, cleaned, err>>
gvars == <<gpc, sales_df, stocks, grv>>
vars == <<pc, present, raw, written, cleaned, err, gpc, sales_df, stocks, grv>>

\* Rows per raw table.
MaxRows == 2
\* The generator's (date, store, sku) loops are run over the first MaxTriples
\* triples, its GRV loop over the first MaxGrvSkus SKUs and GrvPerSku records
\* per SKU (range(40) in the script).
MaxTriples == 2
MaxGrvSkus == 2
GrvPerSku == 2

-----------------------------------------------------------------------------
(* Cells *)

Num(v) == <<"num", v>>
Txt(k) == <<"txt", k>>
DateText(d) == <<"date", d>>
Empty == <<"empty", 0>>
NaN == <<"nan", 0>>
NaT == <<"nat", 0>>
Ts(d) == <<"ts", d>>

IsNum(c) == c[1] = "num"
Neg(c) == IsNum(c) /\ c[2] < 0

\* pd.read_csv: an empty field is read as NaN, anything else as it stands.
ReadCell(c) == IF c = Empty THEN NaN ELSE c
ReadCsv(t) == [i \in DOMAIN t |-> [c \in DOMAIN t[i] |-> ReadCell(t[i][c])]]

\* DataFrame.to_csv: NaN and NaT are written as empty fields, a timestamp as
\* its date text.
WriteCell(c) ==
    IF c = NaN \/ c = NaT THEN Empty
    ELSE IF c[1] = "ts" THEN DateText(c[2])
    ELSE c
ToCsv(df) == [i \in DOMAIN df |-> [c \in DOMAIN df[i] |-> WriteCell(df[i][c])]]

\* pd.to_numeric(errors="coerce")
to_numeric(c) == IF IsNum(c) THEN c ELSE NaN
\* pd.to_datetime(errors="coerce")
to_datetime(c) == IF c[1] = "date" THEN Ts(c[2]) ELSE NaT
fillna(c, v) == IF c = NaN THEN v ELSE c
\* pd.to_numeric(errors="coerce").fillna(0).astype(int)
ToCount(c) == fillna(to_numeric(c), Num(0))
\* pd.to_numeric(errors="coerce").fillna(0)
ToNumber(c) == fillna(to_numeric(c), Num(0))
\* df.loc[df[col] < 0, col] = v
ClampNeg(c, v) == IF Neg(c) THEN v ELSE c

\* df[col] = <op>(df[col]), one definition per operation.
ColToDatetime(df, col) ==
    [i \in DOMAIN df |-> [df[i] EXCEPT ![col] = to_datetime(df[i][col])]]
ColToNumeric(df, col) ==
    [i \in DOMAIN df |-> [df[i] EXCEPT ![col] = to_numeric(df[i][col])]]
ColToCount(df, col) ==
    [i \in DOMAIN df |-> [df[i] EXCEPT ![col] = ToCount(df[i][col])]]
ColToNumber(df, col) ==
    [i \in DOMAIN df |-> [df[i] EXCEPT ![col] = ToNumber(df[i][col])]]
ColFillna(df, col, v) ==
    [i \in DOMAIN df |-> [df[i] EXCEPT ![col] = fillna(df[i][col], v)]]
ColClampNeg(df, col, v) ==
    [i \in DOMAIN df |-> [df[i] EXCEPT ![col] = ClampNeg(df[i][col], v)]]

\* DataFrame.drop_duplicates(), keep="first": NaN cells compare equal.
DropDuplicatesKeepNone(df) ==
    LET keep == {i \in DOMAIN df : \A j \in DOMAIN df : j # i => df[j] # df[i]}
        F[n \in 0..Len(df)] ==
            IF n = 0 THEN <<>>
            ELSE IF n \in keep THEN Append(F[n - 1], df[n]) ELSE F[n - 1]
    IN F[Len(df)]

DropDuplicates(df) ==
    LET F[n \in 0..Len(df)] ==
            IF n = 0 THEN <<>>
            ELSE IF \E j \in 1..(n - 1) : df[j] = df[n] THEN F[n - 1]
            ELSE Append(F[n - 1], df[n])
    IN F[Len(df)]

\* Series.median(), skipna: the middle value of the sorted numbers, the mean
\* of the two middle ones for an even count, NaN for none.
Kth(S, val, k) ==
    CHOOSE v \in {val[i] : i \in S} :
        /\ Cardinality({i \in S : val[i] < v}) < k
        /\ Cardinality({i \in S : val[i] <= v}) >= k

median(df, col) ==
    LET S == {i \in DOMAIN df : IsNum(df[i][col])}
        val == [i \in S |-> df[i][col][2]]
        n == Cardinality(S)
    IN IF n = 0 THEN NaN
       ELSE IF n % 2 = 1 THEN Num(Kth(S, val, (n + 1) \div 2))
       ELSE Num((Kth(S, val, n \div 2) + Kth(S, val, n \div 2 + 1)) \div 2)

\* Series.median() raises TypeError on an object column holding text that is
\* no number; read_csv leaves a column as object when one field is such text.
MedianRaises(df, col) == \E i \in DOMAIN df : df[i][col][1] = "txt"

-----------------------------------------------------------------------------
(* The cleaner: clean_fmcg_data.py *)

Files ==
    {"daily_sales", "stock_levels", "grv_supplier_invoices",
     "recipes_and_raw_materials", "menu_pricing", "store_cash_spotchecks"}

\* 1. daily_sales
CleanSalesDf(df0) ==
    LET d1 == DropDuplicates(df0)
        d2 == ColToDatetime(d1, "date")
        d3 == ColToCount(d2, "quantity_sold")
        d4 == ColToNumeric(d3, "unit_price")
        d5 == ColToNumeric(d4, "sales_amount")
        d6 == ColClampNeg(d5, "quantity_sold", Num(0))
        med == median(d6, "unit_price")
    IN ColClampNeg(d6, "unit_price", med)

\* 2. stock_levels: each column is parsed, defaulted and clamped in turn, then
\* closing_stock goes through the np.where clamp.
StockCols == <<"opening_stock", "deliveries", "sales", "closing_stock">>

CleanStockDf(df0) ==
    LET d1 == DropDuplicates(df0)
        d2 == ColToDatetime(d1, "date")
        F[n \in 0..Len(StockCols)] ==
            IF n = 0 THEN d2
            ELSE ColClampNeg(ColToCount(F[n - 1], StockCols[n]),
                             StockCols[n], Num(0))
    IN ColClampNeg(F[Len(StockCols)], "closing_stock", Num(0))

\* 3. grv_supplier_invoices: the quantities are parsed and defaulted, not
\* clamped; difference is recomputed.
GrvDifferenceRaw(row) == ToCount(row.difference)

GrvDifference(row) == Num(row.invoice_quantity[2] - row.grv_quantity[2])

CleanGrvDf(df0) ==
    LET d1 == DropDuplicates(df0)
        d2 == ColToCount(d1, "grv_quantity")
        d3 == ColToCount(d2, "invoice_quantity")
    IN [i \in DOMAIN d3 |-> [d3[i] EXCEPT !.difference = GrvDifference(d3[i])]]

\* 4. recipes_and_raw_materials
CleanRecipesDf(df0) ==
    LET d1 == DropDuplicates(df0)
        d2 == ColToNumber(d1, "quantity_per_unit")
    IN ColToNumber(d2, "cost_per_unit")

\* 5. menu_pricing: the fill value is the median of the column as read, taken
\* before the parsed column is assigned.
MenuRaises(df0) == MedianRaises(DropDuplicates(df0), "selling_price")

CleanMenuDf(df0) ==
    LET d1 == DropDuplicates(df0)
        fill == median(d1, "selling_price")
        d2 == ColFillna(ColToNumeric(d1, "selling_price"), "selling_price", fill)
        med == median(d2, "selling_price")
    IN ColClampNeg(d2, "selling_price", med)

\* 6. store_cash_spotchecks
SpotVariance(row) == Num(row.actual_cash[2] - row.expected_cash[2])

CleanSpotDf(df0) ==
    LET d1 == DropDuplicates(df0)
        d2 == ColToDatetime(d1, "date")
        d3 == ColToNumber(d2, "expected_cash")
        d4 == ColToNumber(d3, "actual_cash")
        d5 == ColToNumber(d4, "variance")
    IN [i \in DOMAIN d5 |-> [d5[i] EXCEPT !.variance = SpotVariance(d5[i])]]

\* An uncaught exception ends the script where it is.
Abort(e) ==
    /\ pc' = "aborted"
    /\ err' = e
    /\ UNCHANGED <<written, cleaned>>

save_clean(df, name, next) ==
    /\ written' = written \cup {name}
    /\ cleaned' = [cleaned EXCEPT ![name] = ToCsv(df)]
    /\ pc' = next
    /\ UNCHANGED err

CleanDailySales ==
    /\ pc = "daily_sales"
    /\ IF "daily_sales" \notin present THEN Abort("FileNotFoundError")
       ELSE save_clean(CleanSalesDf(ReadCsv(raw["daily_sales"])),
                       "daily_sales", "stock_levels")
    /\ UNCHANGED <<present, raw, gvars>>

CleanStockLevels ==
    /\ pc = "stock_levels"
    /\ IF "stock_levels" \notin present THEN Abort("FileNotFoundError")
       ELSE save_clean(CleanStockDf(ReadCsv(raw["stock_levels"])),
                       "stock_levels", "grv_supplier_invoices")
    /\ UNCHANGED <<present, raw, gvars>>

CleanGrv ==
    /\ pc = "grv_supplier_invoices"
    /\ IF "grv_supplier_invoices" \notin present THEN Abort("FileNotFoundError")
       ELSE save_clean(CleanGrvDf(ReadCsv(raw["grv_supplier_invoices"])),
                       "grv_supplier_invoices", "recipes_and_raw_materials")
    /\ UNCHANGED <<present, raw, gvars>>

CleanRecipes ==
    /\ pc = "recipes_and_raw_materials"
    /\ IF "recipes_and_raw_materials" \notin present
       THEN Abort("FileNotFoundError")
       ELSE save_clean(CleanRecipesDf(ReadCsv(raw["recipes_and_raw_materials"])),
                       "recipes_and_raw_materials", "menu_pricing")
    /\ UNCHANGED <<present, raw, gvars>>

CleanMenuPricing ==
    /\ pc = "menu_pricing"
    /\ IF "menu_pricing" \notin present THEN Abort("FileNotFoundError")
       ELSE IF MenuRaises(ReadCsv(raw["menu_pricing"])) THEN Abort("TypeError")
       ELSE save_clean(CleanMenuDf(ReadCsv(raw["menu_pricing"])),
                       "menu_pricing", "store_cash_spotchecks")
    /\ UNCHANGED <<present, raw, gvars>>

CleanSpotchecks ==
    /\ pc = "store_cash_spotchecks"
    /\ IF "store_cash_spotchecks" \notin present THEN Abort("FileNotFoundError")
       ELSE save_clean(CleanSpotDf(ReadCsv(raw["store_cash_spotchecks"])),
                       "store_cash_spotchecks", "done")
    /\ UNCHANGED <<present, raw, gvars>>

\* The raw files the run may find: rows of every shape the cleaner treats
\* differently (a date or text that does not parse, an empty field, a negative
\* number, a wrong derived value).
RawRows(f) ==
    CASE f = "daily_sales" ->
            [date : {DateText(1), Txt(1)}, store : {Txt(1)}, sku : {Txt(1)},
             quantity_sold : {Num(5), Num(-1), Num(-2), Txt(1)},
             unit_price : {Num(4), Num(8), Num(-8), Txt(1)},
             sales_amount : {Num(20)}]
      [] f = "stock_levels" ->
            [date : {DateText(1)}, store : {Txt(1)}, sku : {Txt(1)},
             opening_stock : {Num(5), Num(-1), Txt(1)},
             deliveries : {Num(2), Num(-1)},
             sales : {Num(3)},
             closing_stock : {Num(4), Num(-10), Txt(1)}]
      [] f = "grv_supplier_invoices" ->
            [grv_id : {Txt(1)}, sku : {Txt(1)},
             grv_quantity : {Num(600), Num(-5), Txt(1)},
             invoice_quantity : {Num(605), Num(-5), Txt(1)},
             difference : {Num(5), Num(0), Txt(1)}]
      [] f = "recipes_and_raw_materials" ->
            [sku : {Txt(1)}, ingredient : {Txt(1), Txt(2)},
             quantity_per_unit : {Num(5), Txt(1)},
             cost_per_unit : {Num(6), Txt(1)}]
      [] f = "menu_pricing" ->
            [sku : {Txt(1), Txt(2)},
             selling_price : {Num(4), Num(8), Num(-8), Txt(1), Empty}]
      [] f = "store_cash_spotchecks" ->
            [date : {DateText(1), Txt(1)}, store : {Txt(1)},
             expected_cash : {Num(1000), Txt(1)},
             actual_cash : {Num(990), Txt(1)},
             variance : {Num(-10), Num(0), Txt(1)}]

RawTables(f) == UNION {[1..n -> RawRows(f)] : n \in 1..MaxRows}

\* What the generator writes: well-formed rows.
GeneratedRow(f) ==
    CASE f = "daily_sales" ->
            [date |-> DateText(1), store |-> Txt(1), sku |-> Txt(1),
             quantity_sold |-> Num(5), unit_price |-> Num(4),
             sales_amount |-> Num(20)]
      [] f = "stock_levels" ->
            [date |-> DateText(1), store |-> Txt(1), sku |-> Txt(1),
             opening_stock |-> Num(5), deliveries |-> Num(2), sales |-> Num(3),
             closing_stock |-> Num(4)]
      [] f = "grv_supplier_invoices" ->
            [grv_id |-> Txt(1), sku |-> Txt(1), grv_quantity |-> Num(600),
             invoice_quantity |-> Num(605), difference |-> Num(5)]
      [] f = "recipes_and_raw_materials" ->
            [sku |-> Txt(1), ingredient |-> Txt(1),
             quantity_per_unit |-> Num(5), cost_per_unit |-> Num(6)]
      [] f = "menu_pricing" ->
            [sku |-> Txt(1), selling_price |-> Num(4)]
      [] f = "store_cash_spotchecks" ->
            [date |-> DateText(1), store |-> Txt(1), expected_cash |-> Num(1000),
             actual_cash |-> Num(990), variance |-> Num(-10)]

Generated == [f \in Files |-> <<GeneratedRow(f)>>]

\* The raw directory holds the generator's files, one of which is either
\* missing or replaced by an arbitrary table; the cleaned directory is empty.
Init ==
    /\ pc = "daily_sales"
    /\ err = "none"
    /\ written = {}
    /\ cleaned = [f \in Files |-> <<>>]
    /\ \E f \in Files :
          \/ /\ present = Files \ {f}
             /\ raw = [Generated EXCEPT ![f] = <<>>]
          \/ /\ present = Files
             /\ \E t \in RawTables(f) : raw = [Generated EXCEPT ![f] = t]
    /\ gpc = "off"
    /\ sales_df = <<>>
    /\ stocks = <<>>
    /\ grv = <<>>

Next ==
    \/ CleanDailySales
    \/ CleanStockLevels
    \/ CleanGrv
    \/ CleanRecipes
    \/ CleanMenuPricing
    \/ CleanSpotchecks

Spec == Init /\ [][Next]_vars

-----------------------------------------------------------------------------
(* The generator: generate.py, sections 1 to 3 *)

\* A name is the sequence of its characters.
stores == <<"Harare_Main", "Harare_North", "Borrowdale", "Avondale", "Chitungwiza">>

skus ==
    <<<<"B", "r", "e", "a", "d", "_", "S", "t", "a", "n", "d", "a", "r", "d">>,
      <<"B", "r", "e", "a", "d", "_", "P", "r", "e", "m", "i", "u", "m">>,
      <<"B", "u", "n", "s", "_", "6", "p", "k">>,
      <<"R", "o", "l", "l", "s", "_", "6", "p", "k">>,
      <<"D", "o", "u", "g", "h", "n", "u", "t">>,
      <<"C", "a", "k", "e", "_", "S", "l", "i", "c", "e">>>>

\* pd.date_range("2025-01-01", "2025-01-31"): the days of the month.
dates == [d \in 1..31 |-> d]

\* menu_prices, in cents, in the order of skus.
menu_prices == <<100, 140, 110, 100, 50, 80>>

\* The n-th (date, store, sku) of "for date / for store / for sku", n from 0.
Triple(n) ==
    [date |-> dates[(n \div (Len(stores) * Len(skus))) + 1],
     store |-> stores[((n \div Len(skus)) % Len(stores)) + 1],
     sku |-> (n % Len(skus)) + 1]

\* The values drawn in the model.  np.random.poisson(base_qty) can return any
\* natural number whatever base_qty (80..200, times 1.3 at a weekend) is, so
\* the draw of base_qty leaves no trace in the row.
PoissonDraws == {0, 150, 1000}
OpeningDraws == {300, 700}
DeliveryDraws == {50, 200}
GrvQtyDraws == {500, 900}
\* random.choice([0, 0, 5, -5, 10])
InvoiceDeltas == {0, 5, -5, 10}

Max(a, b) == IF a >= b THEN a ELSE b

\* Section 1: one iteration of the daily-sales loop.
GenSalesRow ==
    /\ gpc = "sales"
    /\ LET k == Triple(Len(sales_df))
       IN \E qty \in PoissonDraws :
             sales_df' = Append(sales_df,
                 [date |-> k.date, store |-> k.store, sku |-> k.sku,
                  quantity_sold |-> qty, unit_price |-> menu_prices[k.sku],
                  sales_amount |-> qty * menu_prices[k.sku]])
    /\ gpc' = IF Len(sales_df) + 1 = MaxTriples THEN "stocks" ELSE "sales"
    /\ UNCHANGED <<stocks, grv, cvars>>

\* sales_df[(date == ..) & (store == ..) & (sku == ..)]["quantity_sold"]
Lookup(df, k) ==
    {i \in DOMAIN df :
        df[i].date = k.date /\ df[i].store = k.store /\ df[i].sku = k.sku}

ClosingUnclamped(opening, deliveries, sold) == opening + deliveries - sold

Closing(opening, deliveries, sold) == Max(opening + deliveries - sold, 0)

\* Section 2: one iteration of the stock-levels loop; .iloc[0] raises
\* IndexError when no row matches.
GenStockRow ==
    /\ gpc = "stocks"
    /\ LET k == Triple(Len(stocks))
           found == Lookup(sales_df, k)
       IN IF found = {}
          THEN gpc' = "crashed" /\ UNCHANGED stocks
          ELSE /\ \E opening \in OpeningDraws, deliveries \in DeliveryDraws :
                    LET first == CHOOSE i \in found : \A j \in found : i <= j
                        sold == sales_df[first].quantity_sold
                    IN stocks' = Append(stocks,
                          [date |-> k.date, store |-> k.store, sku |-> k.sku,
                           opening_stock |-> opening, deliveries |-> deliveries,
                           sales |-> sold,
                           closing_stock |-> Closing(opening, deliveries, sold)])
               /\ gpc' = IF Len(stocks) + 1 = MaxTriples THEN "grv" ELSE "stocks"
    /\ UNCHANGED <<sales_df, grv, cvars>>

\* f"GRV-{sku[:3]}-{i}"
GrvId(sku, i) == <<"GRV", SubSeq(skus[sku], 1, 3), i>>

\* Section 3: one iteration of the GRV loop, "for sku / for i in range(..)".
GenGrvRow ==
    /\ gpc = "grv"
    /\ LET sku == (Len(grv) \div GrvPerSku) + 1
           i == Len(grv) % GrvPerSku
       IN \E grv_qty \in GrvQtyDraws, delta \in InvoiceDeltas :
             grv' = Append(grv,
                 [grv_id |-> GrvId(sku, i), sku |-> sku,
                  grv_quantity |-> grv_qty,
                  invoice_quantity |-> grv_qty + delta,
                  difference |-> (grv_qty + delta) - grv_qty])
    /\ gpc' = IF Len(grv) + 1 = MaxGrvSkus * GrvPerSku THEN "recipes" ELSE "grv"
    /\ UNCHANGED <<sales_df, stocks, cvars>>

GenInit ==
    /\ gpc = "sales"
    /\ sales_df = <<>>
    /\ stocks = <<>>
    /\ grv = <<>>
    /\ pc = "off"
    /\ err = "none"
    /\ present = {}
    /\ written = {}
    /\ raw = [f \in Files |-> <<>>]
    /\ cleaned = [f \in Files |-> <<>>]

\* Sections 1 and 2.
GenStockNext == GenSalesRow \/ GenStockRow

GenStockSpec == GenInit /\ [][GenStockNext]_vars

\* Sections 1 to 3.
GenNext == GenSalesRow \/ GenStockRow \/ GenGrvRow

GenSpec == GenInit /\ [][GenNext]_vars

-----------------------------------------------------------------------------
(* The claims *)

\* The blocks in script order; a block that has run has either written its
\* cleaned file or ended the run.
Order ==
    <<"daily_sales", "stock_levels", "grv_supplier_invoices",
      "recipes_and_raw_materials", "menu_pricing", "store_cash_spotchecks">>

FailedBlock == Order[Cardinality(written) + 1]
Ran(f) == f \in written \/ (pc = "aborted" /\ FailedBlock = f)

\* The table a block holds after read_csv and drop_duplicates.
Distinct(f) == DropDuplicates(ReadCsv(raw[f]))

NoDuplicateRows(t) == \A i, j \in DOMAIN t : i # j => t[i] # t[j]

CleanDf(f, df) ==
    CASE f = "daily_sales" -> CleanSalesDf(df)
      [] f = "stock_levels" -> CleanStockDf(df)
      [] f = "grv_supplier_invoices" -> CleanGrvDf(df)
      [] f = "recipes_and_raw_materials" -> CleanRecipesDf(df)
      [] f = "menu_pricing" -> CleanMenuDf(df)
      [] f = "store_cash_spotchecks" -> CleanSpotDf(df)

PriceCol(f) == IF f = "daily_sales" THEN "unit_price" ELSE "selling_price"
PriceFiles == {"daily_sales", "menu_pricing"}
Parses(c) == IsNum(c)

\* C1: every cleaned table holds no two equal rows, and cleaning the cleaned
\* table a second time returns it unchanged.
C1_NoDuplicatesIdempotent ==
    \A f \in written :
        /\ NoDuplicateRows(cleaned[f])
        /\ ToCsv(CleanDf(f, ReadCsv(cleaned[f]))) = cleaned[f]

QuantityCols(f) ==
    CASE f = "daily_sales" -> {"quantity_sold"}
      [] f = "stock_levels" ->
            {"opening_stock", "deliveries", "sales", "closing_stock"}
      [] f = "grv_supplier_invoices" -> {"grv_quantity", "invoice_quantity"}
      [] OTHER -> {}

\* C2: every quantity and stock column of every cleaned table holds only
\* values >= 0, a raw negative value being written as 0.
C2_NoNegativeQuantities ==
    \A f \in written : \A col \in QuantityCols(f) : \A i \in DOMAIN cleaned[f] :
        /\ IsNum(cleaned[f][i][col])
        /\ cleaned[f][i][col][2] >= 0
        /\ Neg(Distinct(f)[i][col]) => cleaned[f][i][col] = Num(0)

\* C3: no cleaned price is negative: each negative parsed price is overwritten
\* with the median of all parsed values of its column, the negative ones
\* included.
C3_NoNegativePrices ==
    \A f \in PriceFiles \cap written : \A i \in DOMAIN cleaned[f] :
        /\ ~Neg(cleaned[f][i][PriceCol(f)])
        /\ Neg(Distinct(f)[i][PriceCol(f)]) =>
              cleaned[f][i][PriceCol(f)] = median(Distinct(f), PriceCol(f))

\* C4: when at least one price of a raw daily_sales or menu_pricing table
\* parses, the block does not abort and every row whose raw price was text
\* that does not parse holds the median of the parsed prices.
C4_UnparsablePriceHoldsMedian ==
    \A f \in PriceFiles :
        (/\ Ran(f)
         /\ f \in present
         /\ \E i \in DOMAIN raw[f] : Parses(raw[f][i][PriceCol(f)]))
        => /\ f \in written
           /\ \A i \in DOMAIN Distinct(f) :
                 Distinct(f)[i][PriceCol(f)][1] = "txt" =>
                    cleaned[f][i][PriceCol(f)] = median(Distinct(f), PriceCol(f))

\* C5: a run that aborted on a missing raw file has written no cleaned file.
C5_MissingFileNoPartial ==
    (pc = "aborted" /\ err = "FileNotFoundError") => written = {}

\* C6: every cleaned GRV row has difference = invoice_quantity - grv_quantity
\* and every cleaned spot-check row has variance = actual_cash - expected_cash,
\* over the cleaned source columns, whatever the raw derived value was.
C6_DerivedColumns ==
    /\ "grv_supplier_invoices" \in written =>
          \A i \in DOMAIN cleaned["grv_supplier_invoices"] :
              LET r == cleaned["grv_supplier_invoices"][i]
              IN /\ IsNum(r.difference) /\ IsNum(r.invoice_quantity)
                 /\ IsNum(r.grv_quantity)
                 /\ r.difference[2] = r.invoice_quantity[2] - r.grv_quantity[2]
    /\ "store_cash_spotchecks" \in written =>
          \A i \in DOMAIN cleaned["store_cash_spotchecks"] :
              LET r == cleaned["store_cash_spotchecks"][i]
              IN /\ IsNum(r.variance) /\ IsNum(r.actual_cash)
                 /\ IsNum(r.expected_cash)
                 /\ r.variance[2] = r.actual_cash[2] - r.expected_cash[2]

\* A raw GRV row 600 / 605 whose raw difference is not 5 has been cleaned to
\* difference 5, and the spot checks have been cleaned as well.
C6_Witness ==
    /\ pc = "done"
    /\ \E i \in DOMAIN Distinct("grv_supplier_invoices") :
          LET r == Distinct("grv_supplier_invoices")[i]
              c == cleaned["grv_supplier_invoices"][i]
          IN /\ r.grv_quantity = Num(600) /\ r.invoice_quantity = Num(605)
             /\ r.difference # Num(5)
             /\ c.grv_quantity = Num(600) /\ c.invoice_quantity = Num(605)
             /\ c.difference = Num(5)

\* C7: a price column with no value that parses ends the run in a fatal error
\* and no cleaned file with a missing price is written.
C7_NoParseablePriceIsFatal ==
    \A f \in PriceFiles :
        (/\ Ran(f)
         /\ f \in present
         /\ \A i \in DOMAIN raw[f] : ~Parses(raw[f][i][PriceCol(f)]))
        => /\ pc = "aborted"
           /\ f \notin written

\* C8: the lookup of the stock loop always finds the daily-sales row of the
\* same (date, store, sku); the stock row's sales is that row's
\* quantity_sold and closing_stock = max(opening_stock + deliveries - sales, 0),
\* hence >= 0.
C8_StockRowFromSalesRow ==
    /\ gpc # "crashed"
    /\ \A n \in DOMAIN stocks :
          LET r == stocks[n]
          IN /\ \E i \in DOMAIN sales_df :
                   /\ sales_df[i].date = r.date
                   /\ sales_df[i].store = r.store
                   /\ sales_df[i].sku = r.sku
                   /\ sales_df[i].quantity_sold = r.sales
             /\ r.closing_stock >= 0
             /\ r.closing_stock =
                   IF r.opening_stock + r.deliveries - r.sales > 0
                   THEN r.opening_stock + r.deliveries - r.sales ELSE 0

\* A stock row whose sales exceed opening stock plus deliveries has been
\* written with closing stock 0, beside one with a positive closing stock.
C8_Witness ==
    /\ \E n \in DOMAIN stocks :
          /\ stocks[n].sales > stocks[n].opening_stock + stocks[n].deliveries
          /\ stocks[n].closing_stock = 0
    /\ \E n \in DOMAIN stocks : stocks[n].closing_stock > 0

KeyCols == {"store", "sku", "grv_id", "ingredient"}

\* The cleaned row keeps the raw row's key columns and its date: a date that
\* parses is written back, one that does not becomes the empty marker.
CameFrom(rr, cr) ==
    \A col \in DOMAIN rr :
        /\ col \in KeyCols => cr[col] = rr[col]
        /\ col = "date" =>
              cr[col] = IF rr[col][1] = "date" THEN rr[col] ELSE Empty

C10_GrvIdUnique ==
    \A a, b \in DOMAIN grv : a # b => grv[a].grv_id # grv[b].grv_id

====
